---- MODULE Spec2Model ----
(***************************************************************************)
(* Model of analytics.go: RedisAnalyticsHandler.RecordHit (capture side),  *)
(* CSVPurger and MongoPurger (drain side: StartPurgeLoop, PurgeCache,      *)
(* Connect) over one shared staging store.                                 *)
(*                                                                         *)
(* Concurrency: every RecordHit caller and every StartPurgeLoop goroutine  *)
(* is a process; a process step ends at each access to shared state (the   *)
(* staging store, the file system, the document store).  Variables with an *)
(* h_ prefix are history variables: they record what happened and are read *)
(* by no action guard.                                                     *)
(***************************************************************************)
EXTENDS Integers, Sequences, FiniteSets, TLC

\* ------------------------------------------------------------------ bounds
NumCallers == 2       \* RecordHit calls in progress at once
MaxHits == 2          \* RecordHit calls in one behaviour
MaxTicks == 3         \* clock advances in one behaviour
TickSeconds == 20     \* seconds per clock advance

\* curtime.Minute(): the file name changes once per minute
SecondsPerMinute == 60

Sinks == {"csv", "mongo"}
\* the flush intervals tried (config, whole seconds): one below a minute, one a minute
FlushIntervals == {TickSeconds, SecondsPerMinute}

VARIABLES
    active,      \* the sinks whose StartPurgeLoop goroutine was started (configuration)
    nextCount,   \* StartPurgeLoop's argument: the flush interval in seconds
    now,         \* time.Now(), in seconds
    crashed,     \* TRUE once the process has ended: a goroutine panicked (the Go
                 \* runtime ends the process), or the process was shut down
    store,       \* RedisStorageManager: key -> [value, ttl]
    nextUuid,    \* uuid.NewV4: the number of UUIDs drawn so far
    hits,        \* RecordHit calls started
    inflight,    \* RecordHit calls between Marshal and SetKey: their locals
    h_last,      \* the RecordHit call that returned last
    h_keys,      \* the keys RecordHit calls passed to SetKey
    h_ok,        \* RecordHit calls that returned nil
    dirExists,   \* config.AnalyticsConfig.CSVDir exists
    files,       \* the file system under CSVDir: fname -> file contents
    pc,          \* sink -> position of its StartPurgeLoop goroutine
    wakeAt,      \* sink -> time the current time.Sleep ends (0: not sleeping)
    loopDepth,   \* sink -> active StartPurgeLoop frames
    purgeDepth,  \* sink -> active PurgeCache frames
    loc,         \* sink -> locals of the PurgeCache in progress
    dbSession,   \* MongoPurger.dbSession of the running frame: FALSE is nil
    collection,  \* the documents of the MongoDB collection
    h_cycle,     \* sink -> history of the current / last drain cycle
    h_started,   \* sink -> PurgeCache calls made by StartPurgeLoop
    h_done       \* sink -> of these, the calls that returned

vars == <<active, nextCount, now, crashed, store, nextUuid, hits, inflight, h_last,
          h_keys, h_ok, dirExists, files, pc, wakeAt, loopDepth, purgeDepth, loc,
          dbSession, collection, h_cycle, h_started, h_done>>

recorderVars == <<nextUuid, hits, inflight, h_last, h_keys, h_ok>>
sinkVars == <<dirExists, files, pc, wakeAt, loopDepth, purgeDepth, loc, dbSession,
              collection, h_cycle, h_started, h_done>>
configVars == <<active, nextCount>>

\* ------------------------------------------------------------ text helpers
DigitChar == <<"0", "1", "2", "3", "4", "5", "6", "7", "8", "9">>

RECURSIVE Digits(_)
\* the decimal digits of n >= 0, as fmt's %d and strconv print them
Digits(n) ==
    IF n < 10 THEN <<DigitChar[n + 1]>>
    ELSE Digits(n \div 10) \o <<DigitChar[(n % 10) + 1]>>

\* strconv.Itoa / strconv.FormatInt(_, 10)
Itoa(n) == IF n < 0 THEN <<"-">> \o Digits(0 - n) ELSE Digits(n)

\* time.Month.String()
MonthString(m) ==
    <<"January", "February", "March", "April", "May", "June", "July", "August",
      "September", "October", "November", "December">>[m]

\* ----------------------------------------------------------------- records
RecA ==
    [Method |-> "GET", Path |-> "/a", ContentLength |-> 0 - 1, UserAgent |-> "curl",
     Day |-> 11, Month |-> 1, Year |-> 2014, Hour |-> 5, ResponseCode |-> 200,
     APIKey |-> "key", TimeStamp |-> "t1", APIVersion |-> "v1", APIName |-> "api",
     ApiId |-> "id", OrgId |-> "org"]

\* same key prefix as RecA: 2014 11 1 5 and 2014 1 11 5 both print 20141115
RecB ==
    [Method |-> "POST", Path |-> "/b", ContentLength |-> 12, UserAgent |-> "curl",
     Day |-> 1, Month |-> 11, Year |-> 2014, Hour |-> 5, ResponseCode |-> 404,
     APIKey |-> "key", TimeStamp |-> "t2", APIVersion |-> "v1", APIName |-> "api",
     ApiId |-> "id", OrgId |-> "org"]

\* a record msgpack cannot represent
RecBad == [RecA EXCEPT !.TimeStamp = "unrepresentable"]

AnalyticsRecord == {RecA, RecB, RecBad}

\* msgpack.Marshal: the payload, or an error
Marshal(r) ==
    IF r.TimeStamp = "unrepresentable"
    THEN [err |-> TRUE, bytes |-> <<>>]
    ELSE [err |-> FALSE, bytes |-> <<"msgpack", r>>]

\* decoded := AnalyticsRecord{}
ZeroRecord ==
    [Method |-> "", Path |-> "", ContentLength |-> 0, UserAgent |-> "", Day |-> 0,
     Month |-> 1, Year |-> 0, Hour |-> 0, ResponseCode |-> 0, APIKey |-> "",
     TimeStamp |-> "", APIVersion |-> "", APIName |-> "", ApiId |-> "", OrgId |-> ""]

\* msgpack.Unmarshal into decoded: the record, or an error for a payload that is
\* no record
Unmarshal(v) ==
    IF Len(v) = 2 /\ v[1] = "msgpack"
    THEN [err |-> FALSE, decoded |-> v[2]]
    ELSE [err |-> TRUE, decoded |-> ZeroRecord]

\* a payload that is not msgpack, left in the store before this process started
Garbage == <<"garbage">>
LegacyKey == <<<<"l", "e", "g", "a", "c", "y">>, 0>>

\* ----------------------------------------------------------- staging store
\* RedisStorageManager.SetKey(keyName, session, timeout)
SetKey(s, k, v, ttl) ==
    [x \in DOMAIN s \cup {k} |-> IF x = k THEN [value |-> v, ttl |-> ttl] ELSE s[x]]

\* RedisStorageManager.GetKeysAndValues(): map[string]string
GetKeysAndValues(s) == [k \in DOMAIN s |-> s[k].value]

\* RedisStorageManager.DeleteKeys(keys)
DeleteKeys(s, keys) == [k \in DOMAIN s \ keys |-> s[k]]

EmptyMap == [k \in {} |-> 0]

\* ------------------------------------------------------------------ capture
\* keyName of RecordHit: the four numbers printed with no separator, "-", the UUID
KeyName_NoUuid(r, u) ==
    <<Digits(r.Year) \o Digits(r.Month) \o Digits(r.Day) \o Digits(r.Hour), 0>>

KeyName(r, u) ==
    <<Digits(r.Year) \o Digits(r.Month) \o Digits(r.Day) \o Digits(r.Hour), u>>

\* what RecordHit returned, and the SetKey calls it made
Returned(r, keyName, result, sets) ==
    [thisRecord |-> r, keyName |-> keyName, ret |-> result, sets |-> sets]

NoReturn == Returned(RecA, LegacyKey, "none", <<>>)

\* RecordHit without its branch on err: SetKey whatever Marshal returned
RecordHitEncode_NoBranch(r) ==
    /\ ~crashed
    /\ Cardinality(inflight) < NumCallers
    /\ hits < MaxHits
    /\ hits' = hits + 1
    /\ nextUuid' = nextUuid + 1
    /\ inflight' = inflight \cup
          {[thisRecord |-> r, encoded |-> Marshal(r).bytes,
            keyName |-> KeyName(r, nextUuid + 1)]}
    /\ UNCHANGED <<store, now, crashed, configVars, sinkVars, h_keys, h_ok, h_last>>

\* RecordHit up to its branch on err: Marshal, a new UUID and the key name; a
\* failed encoding returns AnalyticsError at once
RecordHitEncode(r) ==
    /\ ~crashed
    /\ Cardinality(inflight) < NumCallers
    /\ hits < MaxHits
    /\ hits' = hits + 1
    /\ nextUuid' = nextUuid + 1
    /\ LET m == Marshal(r)
           keyName == KeyName(r, nextUuid + 1)
       IN IF m.err
          THEN /\ h_last' = Returned(r, keyName, "AnalyticsError", <<>>)
               /\ UNCHANGED inflight
          ELSE /\ inflight' = inflight \cup
                     {[thisRecord |-> r, encoded |-> m.bytes, keyName |-> keyName]}
               /\ UNCHANGED h_last
    /\ UNCHANGED <<store, now, crashed, configVars, sinkVars, h_keys, h_ok>>

\* RecordHit's else branch: r.Store.SetKey(keyName, string(encoded), 0), return nil
RecordHitSetKey(call) ==
    /\ ~crashed
    /\ call \in inflight
    /\ inflight' = inflight \ {call}
    /\ store' = SetKey(store, call.keyName, call.encoded, 0)
    /\ h_last' = Returned(call.thisRecord, call.keyName, "nil",
                          <<<<call.keyName, call.encoded, 0>>>>)
    /\ h_keys' = h_keys \cup {call.keyName}
    /\ h_ok' = h_ok + 1
    /\ h_cycle' = [s \in Sinks |->
                     IF h_cycle[s].open
                     THEN [h_cycle[s] EXCEPT !.late = @ \cup {call.keyName}]
                     ELSE h_cycle[s]]
    /\ UNCHANGED <<nextUuid, hits, now, crashed, configVars, dirExists, files, pc,
                   wakeAt, loopDepth, purgeDepth, loc, dbSession, collection,
                   h_started, h_done>>

\* -------------------------------------------------------------------- clock
Tick ==
    /\ ~crashed
    /\ now < MaxTicks * TickSeconds
    /\ now' = now + TickSeconds
    /\ UNCHANGED <<store, crashed, configVars, recorderVars, sinkVars>>

\* ------------------------------------------------------- drain: shared parts
\* n: snapshots taken so far; connects: Connect calls so far; retry: the cycle
\* before failed and this one's snapshot equals its snapshot; rowErr: a
\* writer.Write of a row returned an error; inserts: Insert calls of the cycle
NoCycle ==
    [n |-> 0, open |-> FALSE, snap |-> EmptyMap, late |-> {}, out |-> {},
     sinkOk |-> "none", deleted |-> {}, wrote |-> FALSE, fname |-> <<>>,
     rowErr |-> FALSE, connects |-> 0, inserts |-> 0, retry |-> FALSE]

NoLoc ==
    [fname |-> <<>>, outfile |-> "nil", KeyValueMap |-> EmptyMap, keys |-> {},
     docs |-> {}]

\* a cycle's history, started at its snapshot
OpenCycle(s, KeyValueMap) ==
    [NoCycle EXCEPT !.n = h_cycle[s].n + 1, !.open = TRUE, !.snap = KeyValueMap,
                    !.connects = h_cycle[s].connects,
                    !.retry = (h_cycle[s].sinkOk = "fail" /\ h_cycle[s].snap = KeyValueMap)]

\* PurgeCache returns to StartPurgeLoop, which calls itself and sleeps again:
\* c.StartPurgeLoop(nextCount); time.Sleep(nextCount seconds)
ReturnToLoop(s) ==
    /\ pc' = [pc EXCEPT ![s] = "sleep"]
    /\ purgeDepth' = [purgeDepth EXCEPT ![s] = 0]
    /\ loopDepth' = [loopDepth EXCEPT ![s] = @ + 1]
    /\ wakeAt' = [wakeAt EXCEPT ![s] = now + nextCount]
    /\ loc' = [loc EXCEPT ![s] = NoLoc]
    /\ h_done' = [h_done EXCEPT ![s] = @ + 1]

\* StartPurgeLoop that does not wait for PurgeCache: go c.PurgeCache(), then the
\* next StartPurgeLoop and its sleep at once
StartPurgeLoop_NoWait(s) ==
    /\ ~crashed
    /\ s \in active
    /\ pc[s] = "sleep"
    /\ now >= wakeAt[s]
    /\ now < MaxTicks * TickSeconds
    /\ wakeAt' = [wakeAt EXCEPT ![s] = now + nextCount]
    /\ loopDepth' = [loopDepth EXCEPT ![s] = @ + 1]
    /\ h_started' = [h_started EXCEPT ![s] = @ + 1]
    /\ UNCHANGED <<store, now, crashed, configVars, recorderVars, dirExists, files,
                   pc, purgeDepth, loc, dbSession, collection, h_cycle, h_done>>

\* a purge loop that runs whether or not its sink was configured and started
StartPurgeLoop_Unconfigured(s) ==
    /\ ~crashed
    /\ pc[s] = "sleep"
    /\ now >= wakeAt[s]
    /\ pc' = [pc EXCEPT ![s] = "purge"]
    /\ purgeDepth' = [purgeDepth EXCEPT ![s] = 1]
    /\ wakeAt' = [wakeAt EXCEPT ![s] = 0]
    /\ h_started' = [h_started EXCEPT ![s] = @ + 1]
    /\ UNCHANGED <<store, now, crashed, configVars, recorderVars, dirExists, files,
                   loopDepth, loc, dbSession, collection, h_cycle, h_done>>

\* time.Sleep returns and StartPurgeLoop calls PurgeCache
StartPurgeLoop(s) ==
    /\ ~crashed
    /\ s \in active
    /\ pc[s] = "sleep"
    /\ now >= wakeAt[s]
    /\ pc' = [pc EXCEPT ![s] = "purge"]
    /\ purgeDepth' = [purgeDepth EXCEPT ![s] = 1]
    /\ wakeAt' = [wakeAt EXCEPT ![s] = 0]
    /\ h_started' = [h_started EXCEPT ![s] = @ + 1]
    /\ UNCHANGED <<store, now, crashed, configVars, recorderVars, dirExists, files,
                   loopDepth, loc, dbSession, collection, h_cycle, h_done>>

\* ------------------------------------------------------------ flat-file sink
\* fname of CSVPurger.PurgeCache: CSVDir and the time down to the minute
FileName(t) == <<"CSVDir", t \div SecondsPerMinute>>

headers ==
    <<"METHOD", "PATH", "SIZE", "UA", "DAY", "MONTH", "YEAR", "HOUR", "RESPONSE",
      "APINAME", "APIVERSION">>

\* a row with the method and the path in each other's column
toWrite_Swapped(decoded) ==
    <<decoded.Path, decoded.Method, Itoa(decoded.ContentLength), decoded.UserAgent,
      Itoa(decoded.Day), MonthString(decoded.Month), Itoa(decoded.Year),
      Itoa(decoded.Hour), Itoa(decoded.ResponseCode), decoded.APIName,
      decoded.APIVersion>>

\* toWrite of CSVPurger.PurgeCache: the row of a decoded record
toWrite(decoded) ==
    <<decoded.Method, decoded.Path, Itoa(decoded.ContentLength), decoded.UserAgent,
      Itoa(decoded.Day), MonthString(decoded.Month), Itoa(decoded.Year),
      Itoa(decoded.Hour), Itoa(decoded.ResponseCode), decoded.APIName,
      decoded.APIVersion>>

\* a file just created or truncated by os.Create
EmptyFile == [header |-> <<>>, rows |-> {}]

\* keys of CSVPurger.PurgeCache after its loop: every key of KeyValueMap
CSVKeys_Current(KeyValueMap) == DOMAIN store

CSVKeys(KeyValueMap) == DOMAIN KeyValueMap

\* the rows the loop hands to writer.Write: one per entry that decodes, each
\* carrying the key it came from (the key is not part of the row's text)
CSVRows(KeyValueMap) ==
    {[key |-> k, row |-> toWrite(Unmarshal(KeyValueMap[k]).decoded)] :
        k \in {x \in DOMAIN KeyValueMap : ~Unmarshal(KeyValueMap[x]).err}}

\* PurgeCache up to its snapshot: the file name from time.Now(), os.MkdirAll (its
\* error only logged), os.Create (its error dropped: outfile is nil), the header
\* row into csv.Writer's buffer, c.Store.GetKeysAndValues().  writer.Write(headers)
\* cannot fail: the row goes into the empty buffer of a new bufio.Writer, so the
\* branch that logs "Failed to write file headers!" is never taken.
CSVPurgeCacheOpen ==
    /\ ~crashed
    /\ pc["csv"] = "purge"
    /\ \E mkdirOk \in BOOLEAN, createOk \in BOOLEAN :
          /\ dirExists => mkdirOk
          /\ createOk => (dirExists \/ mkdirOk)
          /\ dirExists' = (dirExists \/ mkdirOk)
          /\ files' = IF createOk
                      THEN [f \in DOMAIN files \cup {FileName(now)} |->
                              IF f = FileName(now) THEN EmptyFile ELSE files[f]]
                      ELSE files
          /\ loc' = [loc EXCEPT !["csv"] =
                       [NoLoc EXCEPT !.fname = FileName(now),
                                     !.outfile = IF createOk THEN "open" ELSE "nil",
                                     !.KeyValueMap = GetKeysAndValues(store)]]
    /\ h_cycle' = [h_cycle EXCEPT !["csv"] =
                     [OpenCycle("csv", GetKeysAndValues(store)) EXCEPT
                        !.fname = FileName(now)]]
    /\ pc' = [pc EXCEPT !["csv"] = "write"]
    /\ UNCHANGED <<store, now, crashed, configVars, recorderVars, wakeAt, loopDepth,
                   purgeDepth, dbSession, collection, h_started, h_done>>

\* the loop over KeyValueMap and writer.Flush().  csv.Writer buffers in a
\* bufio.Writer: rows reach the file when the buffer fills or on Flush, in the
\* map's iteration order (any order); the first failed write to the file is
\* sticky, later rows get "File write failed!" and Flush writes nothing more.
\* Neither a row's error nor Flush's stops the cycle.  flushOk: every row
\* reached the file.  Otherwise durable is the part written before the failure,
\* and rowErr tells whether the failure came while rows were still being
\* written (a row's Write returned it) or only in Flush.
CSVWriteRows ==
    /\ ~crashed
    /\ pc["csv"] = "write"
    /\ LET rows == CSVRows(loc["csv"].KeyValueMap)
           fname == loc["csv"].fname
       IN \E flushOk \in BOOLEAN, hdr \in BOOLEAN, durable \in SUBSET rows,
             rowErr \in BOOLEAN :
             /\ flushOk => (loc["csv"].outfile = "open" /\ hdr /\ durable = rows)
             /\ rowErr => (~flushOk /\ durable # rows)
             /\ ~flushOk => (~hdr \/ durable # rows)
             /\ loc["csv"].outfile = "nil" => (~hdr /\ durable = {})
             /\ durable # {} => hdr
             /\ files' = IF loc["csv"].outfile = "open"
                         THEN [files EXCEPT ![fname] =
                                 [header |-> IF hdr THEN headers ELSE <<>>,
                                  rows |-> durable]]
                         ELSE files
             /\ h_cycle' = [h_cycle EXCEPT !["csv"] =
                              [@ EXCEPT !.out = durable,
                                        !.sinkOk = IF flushOk THEN "ok" ELSE "fail",
                                        !.wrote = TRUE, !.rowErr = rowErr]]
    /\ loc' = [loc EXCEPT !["csv"].keys = CSVKeys(loc["csv"].KeyValueMap)]
    /\ pc' = [pc EXCEPT !["csv"] = "delete"]
    /\ UNCHANGED <<store, now, crashed, configVars, recorderVars, dirExists, wakeAt,
                   loopDepth, purgeDepth, dbSession, collection, h_started, h_done>>

\* a purge that overwrites the drained entries instead of deleting them
CSVDeleteKeys_Overwrite ==
    /\ ~crashed
    /\ pc["csv"] = "delete"
    /\ store' = [k \in DOMAIN store |->
                    IF k \in loc["csv"].keys
                    THEN [value |-> Garbage, ttl |-> 0] ELSE store[k]]
    /\ h_cycle' = [h_cycle EXCEPT !["csv"] =
                     [@ EXCEPT !.open = FALSE, !.deleted = loc["csv"].keys]]
    /\ ReturnToLoop("csv")
    /\ UNCHANGED <<now, crashed, configVars, recorderVars, dirExists, files,
                   dbSession, collection, h_started>>

\* c.Store.DeleteKeys(keys), and PurgeCache returns
CSVDeleteKeys ==
    /\ ~crashed
    /\ pc["csv"] = "delete"
    /\ store' = DeleteKeys(store, loc["csv"].keys)
    /\ h_cycle' = [h_cycle EXCEPT !["csv"] =
                     [@ EXCEPT !.open = FALSE, !.deleted = loc["csv"].keys]]
    /\ ReturnToLoop("csv")
    /\ UNCHANGED <<now, crashed, configVars, recorderVars, dirExists, files,
                   dbSession, collection, h_started>>

\* ------------------------------------------------------ document-store sink
\* a slot of keys that the loop never filled: a nil interface{}
NilDoc == <<>>

\* keys of MongoPurger.PurgeCache after its loop: one slot per entry of
\* KeyValueMap, interface{}(decoded) where the value decodes and nil where it
\* does not; each slot carries the key it came from
MongoDocs(KeyValueMap) ==
    {[key |-> k,
      doc |-> IF Unmarshal(KeyValueMap[k]).err
              THEN NilDoc
              ELSE <<Unmarshal(KeyValueMap[k]).decoded>>] : k \in DOMAIN KeyValueMap}

\* keyNames of MongoPurger.PurgeCache after its loop
MongoKeyNames_Decoded(KeyValueMap) ==
    {k \in DOMAIN KeyValueMap : ~Unmarshal(KeyValueMap[k]).err}

MongoKeyNames(KeyValueMap) == DOMAIN KeyValueMap

\* PurgeCache's entry: with no session go and connect; with one, take the
\* snapshot, and return at once when it is empty
MongoPurgeCache ==
    /\ ~crashed
    /\ pc["mongo"] = "purge"
    /\ IF ~dbSession
       THEN /\ pc' = [pc EXCEPT !["mongo"] = "connect"]
            /\ UNCHANGED <<loc, h_cycle, purgeDepth, loopDepth, wakeAt, h_done>>
       ELSE LET KeyValueMap == GetKeysAndValues(store)
            IN IF DOMAIN KeyValueMap # {}
               THEN /\ pc' = [pc EXCEPT !["mongo"] = "insert"]
                    /\ loc' = [loc EXCEPT !["mongo"] =
                                 [NoLoc EXCEPT !.KeyValueMap = KeyValueMap]]
                    /\ h_cycle' = [h_cycle EXCEPT !["mongo"] =
                                     OpenCycle("mongo", KeyValueMap)]
                    /\ UNCHANGED <<purgeDepth, loopDepth, wakeAt, h_done>>
               ELSE /\ h_cycle' = [h_cycle EXCEPT !["mongo"] =
                                     [OpenCycle("mongo", KeyValueMap) EXCEPT
                                        !.open = FALSE]]
                    /\ ReturnToLoop("mongo")
    /\ UNCHANGED <<store, now, crashed, configVars, recorderVars, dirExists, files,
                   dbSession, collection, h_started>>

\* m.Connect(): mgo.Dial; a failed dial ends in log.Panic, which no frame
\* recovers.  After a dial that worked, PurgeCache calls itself.
MongoConnect ==
    /\ ~crashed
    /\ pc["mongo"] = "connect"
    /\ \E dialOk \in BOOLEAN :
          IF dialOk
          THEN /\ dbSession' = TRUE
               /\ purgeDepth' = [purgeDepth EXCEPT !["mongo"] = @ + 1]
               /\ pc' = [pc EXCEPT !["mongo"] = "purge"]
               /\ UNCHANGED crashed
          ELSE /\ crashed' = TRUE
               /\ pc' = [pc EXCEPT !["mongo"] = "panic"]
               /\ UNCHANGED <<dbSession, purgeDepth>>
    /\ h_cycle' = [h_cycle EXCEPT !["mongo"].connects = @ + 1]
    /\ UNCHANGED <<store, now, configVars, recorderVars, dirExists, files, wakeAt,
                   loopDepth, loc, collection, h_started, h_done>>

\* the branch on Insert's error: DeleteKeys only after an insert that worked
MongoOnInsert_AlwaysDelete(insertOk) == "delete"

MongoOnInsert(insertOk) == IF insertOk THEN "delete" ELSE "return"

\* the loop over KeyValueMap and analyticsCollection.Insert(keys...).  mgo sends
\* a nil document as an empty one.  A bulk insert that fails has stored none
\* of its documents, or its first one (any one: the map's order) before the error.
MongoInsert ==
    /\ ~crashed
    /\ pc["mongo"] = "insert"
    /\ LET docs == MongoDocs(loc["mongo"].KeyValueMap)
           n == h_cycle["mongo"].n
           Stored(ds) == {[key |-> d.key, cycle |-> n, doc |-> d.doc] : d \in ds}
       IN \E insertOk \in BOOLEAN, stored \in {docs, {}} \cup {{d} : d \in docs} :
             /\ insertOk => stored = docs
             /\ ~insertOk => stored # docs
             /\ collection' = collection \cup Stored(stored)
             /\ IF MongoOnInsert(insertOk) = "delete"
                THEN /\ pc' = [pc EXCEPT !["mongo"] = "delete"]
                     /\ loc' = [loc EXCEPT !["mongo"].docs = docs,
                                           !["mongo"].keys =
                                               MongoKeyNames(loc["mongo"].KeyValueMap)]
                     /\ h_cycle' = [h_cycle EXCEPT !["mongo"] =
                                      [@ EXCEPT !.out = stored, !.wrote = TRUE, !.inserts = @ + 1,
                                                !.sinkOk = IF insertOk THEN "ok"
                                                           ELSE "fail"]]
                     /\ UNCHANGED <<purgeDepth, loopDepth, wakeAt, h_done>>
                ELSE /\ h_cycle' = [h_cycle EXCEPT !["mongo"] =
                                      [@ EXCEPT !.out = stored, !.wrote = TRUE, !.inserts = @ + 1,
                                                !.sinkOk = IF insertOk THEN "ok"
                                                           ELSE "fail",
                                                !.open = FALSE]]
                     /\ ReturnToLoop("mongo")
    /\ UNCHANGED <<store, now, crashed, configVars, recorderVars, dirExists, files,
                   dbSession, h_started>>

\* m.Store.DeleteKeys(keyNames), and PurgeCache returns
MongoDeleteKeys ==
    /\ ~crashed
    /\ pc["mongo"] = "delete"
    /\ store' = DeleteKeys(store, loc["mongo"].keys)
    /\ h_cycle' = [h_cycle EXCEPT !["mongo"] =
                     [@ EXCEPT !.open = FALSE, !.deleted = loc["mongo"].keys]]
    /\ ReturnToLoop("mongo")
    /\ UNCHANGED <<now, crashed, configVars, recorderVars, dirExists, files,
                   dbSession, collection, h_started>>

\* ------------------------------------------------------------ specification
\* the process starts with one sink configured, its StartPurgeLoop goroutine in
\* its first sleep; the staging store still holds an entry that is no msgpack
\* record (the first cycle that deletes leaves the store empty)
InitWith(sinks) ==
    /\ active \in sinks
    /\ nextCount \in FlushIntervals
    /\ now = 0
    /\ crashed = FALSE
    /\ store = [k \in {LegacyKey} |-> [value |-> Garbage, ttl |-> 0]]
    /\ nextUuid = 0
    /\ hits = 0
    /\ inflight = {}
    /\ h_last = NoReturn
    /\ h_keys = {}
    /\ h_ok = 0
    /\ dirExists = FALSE
    /\ files = EmptyMap
    /\ pc = [s \in Sinks |-> "sleep"]
    /\ wakeAt = [s \in Sinks |-> nextCount]
    /\ loopDepth = [s \in Sinks |-> IF s \in active THEN 1 ELSE 0]
    /\ purgeDepth = [s \in Sinks |-> 0]
    /\ loc = [s \in Sinks |-> NoLoc]
    /\ dbSession = FALSE
    /\ collection = {}
    /\ h_cycle = [s \in Sinks |-> NoCycle]
    /\ h_started = [s \in Sinks |-> 0]
    /\ h_done = [s \in Sinks |-> 0]

\* the steps of one sink's StartPurgeLoop goroutine
SinkStep(s) ==
    \/ StartPurgeLoop(s)
    \/ s = "csv" /\ (CSVPurgeCacheOpen \/ CSVWriteRows \/ CSVDeleteKeys)
    \/ s = "mongo" /\ (MongoPurgeCache \/ MongoConnect \/ MongoInsert \/ MongoDeleteKeys)

Init == InitWith({{"csv"}, {"mongo"}})

Next ==
    \/ \E r \in AnalyticsRecord : RecordHitEncode(r)
    \/ \E call \in inflight : RecordHitSetKey(call)
    \/ Tick
    \/ \E s \in Sinks : StartPurgeLoop(s)
    \/ CSVPurgeCacheOpen
    \/ CSVWriteRows
    \/ CSVDeleteKeys
    \/ MongoPurgeCache
    \/ MongoConnect
    \/ MongoInsert
    \/ MongoDeleteKeys

Spec == Init /\ [][Next]_vars

\* The process is shut down.  StartPurgeLoop takes no stop channel or context
\* and PurgeCache checks none: the only way to stop a purge loop is to end the
\* process, and its goroutine ends with it wherever it is.
Shutdown ==
    /\ ~crashed
    /\ crashed' = TRUE
    /\ UNCHANGED <<store, now, configVars, recorderVars, sinkVars>>

NextOrShutdown == Next \/ Shutdown

SpecShutdown == Init /\ [][NextOrShutdown]_vars

\* the same process with any of the purgers started, both at once included:
\* two StartPurgeLoop goroutines on the one staging store (these with the
\* longer of the flush intervals)
InitAnySinks ==
    /\ InitWith({{"csv"}, {"mongo"}, {"csv", "mongo"}})
    /\ Cardinality(active) > 1 => nextCount = SecondsPerMinute

SpecAnySinks == InitAnySinks /\ [][Next]_vars

\* ------------------------------------------------------------------- claims
\* a sink's drain cycle has completed: its PurgeCache took a snapshot and returned
CycleDone(s) == h_cycle[s].n > 0 /\ ~h_cycle[s].open

OutKeys(s) == {o.key : o \in h_cycle[s].out}

Undecodable(KeyValueMap) == {k \in DOMAIN KeyValueMap : Unmarshal(KeyValueMap[k]).err}

\* C1: snapshot isolation.  With one sink running, a key that RecordHit writes
\* after a cycle's snapshot stays in the staging store, with its value, until
\* the cycle has completed (and up to the next snapshot), is not among the keys
\* whose rows or documents that cycle hands to its sink, and is not deleted by
\* it: the keys the cycle passes to DeleteKeys are keys of its own snapshot.
C1_SnapshotIsolation ==
    \A s \in Sinks :
        /\ \A k \in h_cycle[s].late :
              /\ k \in DOMAIN store
              /\ k \notin DOMAIN h_cycle[s].snap
              /\ k \notin OutKeys(s)
              /\ k \notin h_cycle[s].deleted
        /\ h_cycle[s].deleted \subseteq DOMAIN h_cycle[s].snap
        /\ OutKeys(s) \subseteq DOMAIN h_cycle[s].snap
        /\ loc[s].keys \subseteq DOMAIN h_cycle[s].snap

\* a document-store cycle that deleted its snapshot has completed while a
\* RecordHit wrote a key during it
C1_Witness ==
    /\ CycleDone("mongo")
    /\ h_cycle["mongo"].deleted # {}
    /\ h_cycle["mongo"].late # {}
    /\ h_cycle["mongo"].late \subseteq DOMAIN store

\* C2: deletion atomicity of the document-store sink.  After a MongoPurger
\* cycle over a non-empty snapshot, and until the next snapshot: if the bulk
\* insert succeeded the staging store holds none of the snapshot's keys; if it
\* failed the staging store holds every key of the snapshot with the value the
\* snapshot read, and nothing was deleted.
C2_MongoDeletionAtomicity ==
    (CycleDone("mongo") /\ DOMAIN h_cycle["mongo"].snap # {}) =>
        LET c == h_cycle["mongo"]
        IN /\ c.sinkOk \in {"ok", "fail"}
           /\ c.sinkOk = "ok" =>
                 /\ DOMAIN c.snap \cap DOMAIN store = {}
                 /\ c.deleted = DOMAIN c.snap
           /\ c.sinkOk = "fail" =>
                 /\ c.deleted = {}
                 /\ \A k \in DOMAIN c.snap :
                       k \in DOMAIN store /\ store[k].value = c.snap[k]

\* a document-store cycle over two or more entries whose bulk insert failed
C2_Witness ==
    /\ CycleDone("mongo")
    /\ h_cycle["mongo"].sinkOk = "fail"
    /\ Cardinality(DOMAIN h_cycle["mongo"].snap) >= 2

\* C3: deletion atomicity of the flat-file sink, as claimed.  After a CSVPurger
\* cycle whose file was not written (os.Create failed, or the flush did not
\* bring every row to the file) no key was deleted and every key of the
\* snapshot is in the staging store with the value the snapshot read.
C3_CSVKeepsKeysOnFileFailure ==
    (CycleDone("csv") /\ h_cycle["csv"].sinkOk = "fail") =>
        /\ h_cycle["csv"].deleted = {}
        /\ \A k \in DOMAIN h_cycle["csv"].snap :
              k \in DOMAIN store /\ store[k].value = h_cycle["csv"].snap[k]

C5_RecordHitWritesIffEncoded ==
    [][h_last' # h_last =>
        LET call == h_last'
            m == Marshal(call.thisRecord)
        IN IF m.err
           THEN /\ call.ret = "AnalyticsError"
                /\ call.sets = <<>>
                /\ store' = store
           ELSE /\ call.ret = "nil"
                /\ call.sets = <<<<call.keyName, m.bytes, 0>>>>
                /\ store' = SetKey(store, call.keyName, m.bytes, 0)
                /\ store'[call.keyName] = [value |-> m.bytes, ttl |-> 0]]_vars

\* a RecordHit returned AnalyticsError after another had returned nil
C5_Witness ==
    /\ h_last.ret = "AnalyticsError"
    /\ h_last.sets = <<>>
    /\ h_ok >= 1

\* C6: key uniqueness.  The RecordHit calls that returned nil wrote under
\* pairwise distinct keys (as many keys as calls), also for records of the same
\* year, month, day and hour, and as long as no drain cycle has run the
\* staging store holds one entry per such call beside what it held before.
C6_KeyUniqueness ==
    /\ Cardinality(h_keys) = h_ok
    /\ (\A s \in Sinks : h_cycle[s].n = 0) =>
          /\ DOMAIN store = h_keys \cup {LegacyKey}
          /\ Cardinality(DOMAIN store) = h_ok + 1

\* two RecordHit calls returned nil for records with the same date prefix, no
\* drain cycle having run
C6_Witness ==
    /\ h_ok >= 2
    /\ \E k1 \in h_keys, k2 \in h_keys : k1 # k2 /\ k1[1] = k2[1]
    /\ \A s \in Sinks : h_cycle[s].n = 0

\* C7: no overlapping cycles.  For each sink, of the PurgeCache calls its
\* StartPurgeLoop made at most one has not returned; the goroutine sleeps
\* exactly when all of them have returned, and then no PurgeCache frame and no
\* drain cycle is in progress; each call takes at most one snapshot, so a cycle
\* never starts before the previous one returned, however long that one took.
C7_NoOverlappingCycles ==
    \A s \in Sinks :
        /\ h_started[s] - h_done[s] \in {0, 1}
        /\ (pc[s] = "sleep") <=> (h_started[s] = h_done[s])
        /\ pc[s] = "sleep" => (purgeDepth[s] = 0 /\ ~h_cycle[s].open)
        /\ h_cycle[s].open => (pc[s] \in {"write", "delete", "insert"} /\ purgeDepth[s] >= 1)
        /\ h_cycle[s].n <= h_started[s]
        /\ h_cycle[s].n - h_done[s] \in {0, 1}

\* a flat-file cycle, not the first, still before its DeleteKeys a flush
\* interval or more after it began (it began in an earlier minute)
C7_Witness ==
    /\ active = {"csv"}
    /\ nextCount = TickSeconds
    /\ pc["csv"] = "delete"
    /\ loc["csv"].fname # FileName(now)
    /\ h_done["csv"] >= 1

\* C8: the drain scheduler goes back to sleeping after every cycle, as
\* claimed.  Whatever happened in PurgeCache, a sink's goroutine is sleeping or
\* has a next step to take: it is never stopped.
C8_SchedulerNeverStops ==
    \A s \in active : pc[s] = "sleep" \/ ENABLED SinkStep(s)

\* C9: capture and drain are decoupled failure domains, as claimed.  Whatever
\* happened on the drain side, RecordHit calls are served: a call for an
\* encodable record can start (within the bounds on calls), and every call
\* between Marshal and SetKey can make its SetKey and return nil.
C9_RecordHitAlwaysServed ==
    /\ (hits < MaxHits /\ Cardinality(inflight) < NumCallers) =>
          ENABLED RecordHitEncode(RecA)
    /\ \A call \in inflight : ENABLED RecordHitSetKey(call)

\* C10: each flat-file cycle creates a new destination file, as claimed.  A
\* row that is in a file of the output directory, and whose key is no longer
\* in the staging store, is in a file of the output directory after every
\* further step: no later cycle truncates or replaces the file that holds it.
C10_RowsStayPersisted ==
    [][\A f \in DOMAIN files : \A o \in files[f].rows :
          o.key \notin DOMAIN store =>
              /\ f \in DOMAIN files'
              /\ o \in files'[f].rows]_vars

\* the copies of the record staged under key k that sink s holds: data rows in
\* the CSV files, record documents in the collection
Copies(s, k) ==
    IF s = "csv"
    THEN {fo \in UNION {{<<f, o>> : o \in files[f].rows} : f \in DOMAIN files} :
             fo[2].key = k}
    ELSE {d \in collection : d.key = k /\ d.doc # NilDoc}

\* C11: idempotence under retry.  When a cycle failed and the next cycle of the
\* sink, over the same snapshot, succeeded, the sink holds every decodable
\* record of that snapshot exactly once.
C11_RetryPersistsOnce ==
    \A s \in active :
        (h_cycle[s].retry /\ h_cycle[s].sinkOk = "ok") =>
            \A k \in DOMAIN h_cycle[s].snap \ Undecodable(h_cycle[s].snap) :
                Cardinality(Copies(s, k)) = 1

\* one staged record is persisted by both sinks
DoubleCounted ==
    \E k \in h_keys : Copies("csv", k) # {} /\ Copies("mongo", k) # {}

\* a staged record is gone from the staging store, deleted by sink t's cycle,
\* while the cycle of sink s that had snapshotted it failed and s holds no
\* copy of it: s can never persist it
PrematureDeletion ==
    \E s \in Sinks : \E t \in Sinks \ {s}, k \in h_keys :
        /\ k \notin DOMAIN store
        /\ k \in h_cycle[t].deleted
        /\ CycleDone(s)
        /\ k \in DOMAIN h_cycle[s].snap
        /\ h_cycle[s].sinkOk = "fail"
        /\ Copies(s, k) = {}

\* C12: two sinks on one staging store.  With a single active sink no record
\* is double-counted and none is prematurely deleted; with a CSVPurger loop
\* and a MongoPurger loop on the same store both states are reachable
\* (C12_Witness).
C12_SingleSinkNoInterference ==
    Cardinality(active) = 1 => (~DoubleCounted /\ ~PrematureDeletion)

\* both loops ran a cycle over the same two records: one record is in a file
\* and in the collection, the other was deleted by the CSV cycle while the
\* Mongo cycle that had snapshotted it failed
C12_Witness ==
    /\ active = {"csv", "mongo"}
    /\ DoubleCounted
    /\ PrematureDeletion
    /\ h_cycle["csv"].snap = h_cycle["mongo"].snap

\* the text of a record's row under the columns METHOD, PATH, SIZE, UA, DAY,
\* MONTH, YEAR, HOUR, RESPONSE, APINAME, APIVERSION, written out by hand
ExpectedRow(r) ==
    IF r = RecA
    THEN <<"GET", "/a", <<"-", "1">>, "curl", <<"1", "1">>, "January",
           <<"2", "0", "1", "4">>, <<"5">>, <<"2", "0", "0">>, "api", "v1">>
    ELSE <<"POST", "/b", <<"1", "2">>, "curl", <<"1">>, "November",
           <<"2", "0", "1", "4">>, <<"5">>, <<"4", "0", "4">>, "api", "v1">>

\* the file of the CSV cycle holds the header row and exactly one row per
\* decodable record of the cycle's snapshot, in the header's column order
CycleFileComplete ==
    LET c == h_cycle["csv"]
        decodable == DOMAIN c.snap \ Undecodable(c.snap)
    IN /\ c.fname \in DOMAIN files
       /\ files[c.fname].header =
              <<"METHOD", "PATH", "SIZE", "UA", "DAY", "MONTH", "YEAR", "HOUR",
                "RESPONSE", "APINAME", "APIVERSION">>
       /\ files[c.fname].rows =
              {[key |-> k, row |-> ExpectedRow(Unmarshal(c.snap[k]).decoded)] :
                  k \in decodable}

C14_LoopDepthConstant ==
    \A s \in Sinks : pc[s] = "purge" => loopDepth[s] = 1

\* C15: staged records are never mutated in place.  No step changes the value
\* under a key that stays in the staging store; a step of a purge loop adds
\* no key; and a RecordHit that stores writes under a key that was neither
\* present nor ever written before.
C15_NoMutationInPlace ==
    [][/\ \A k \in DOMAIN store \cap DOMAIN store' : store'[k] = store[k]
       /\ pc' # pc => DOMAIN store' \subseteq DOMAIN store
       /\ h_ok' # h_ok =>
             /\ h_last'.keyName \notin DOMAIN store \cup h_keys
             /\ DOMAIN store' = DOMAIN store \cup {h_last'.keyName}]_vars

\* a record went through its whole life, created by RecordHit, read by a cycle
\* and deleted by it, while another staged record is still waiting unchanged
C15_Witness ==
    \E s \in active : \E k1 \in h_keys, k2 \in h_keys :
        /\ CycleDone(s)
        /\ k1 \in DOMAIN h_cycle[s].snap
        /\ k1 \in h_cycle[s].deleted
        /\ k1 \notin DOMAIN store
        /\ k2 \in DOMAIN store
        /\ Unmarshal(store[k2].value).err = FALSE

\* the process was shut down (it did not end by a panic)
WasShutDown == crashed /\ \A s \in Sinks : pc[s] # "panic"

\* C16: graceful shutdown.  When the process has been shut down, every purge
\* loop was stopped in its sleep: no drain cycle that took its snapshot is left
\* unfinished, and none is left between its sink write and its delete.
C16_ShutdownBetweenCycles ==
    WasShutDown => \A s \in active : pc[s] = "sleep" \/ ~h_cycle[s].open

\* C17: the batch of the bulk insert is exactly the decoded records.  After an
\* Insert that stored its whole batch, the documents of the batch are as many
\* as the snapshot's entries that decoded, one per such entry, and none of
\* them is an empty placeholder.
C17_BatchIsDecodedRecords ==
    LET c == h_cycle["mongo"]
        decodable == DOMAIN c.snap \ Undecodable(c.snap)
    IN (c.inserts = 1 /\ c.sinkOk = "ok") =>
          /\ Cardinality(c.out) = Cardinality(decodable)
          /\ \A d \in c.out : d.doc # NilDoc
          /\ \A k \in decodable :
                Cardinality({d \in c.out : d.key = k}) = 1

\* C18: connect-on-first-use.  Connect is called at most once by a purge loop
\* and a cycle makes at most one bulk insert; and once a PurgeCache call of the
\* loop is over, the first one (made without a session) has called Connect
\* exactly once and every call so far has run its drain cycle exactly once
\* (one snapshot per call).
C18_ConnectOnFirstUse ==
    LET c == h_cycle["mongo"]
    IN /\ c.connects <= 1
       /\ c.inserts <= 1
       /\ (h_started["mongo"] >= 1
             /\ pc["mongo"] \notin {"purge", "connect", "insert", "delete"}) =>
               (c.connects = 1 /\ c.n = h_started["mongo"])

\* C19: eventual drain.  Every record stored by a successful RecordHit is
\* eventually persisted by the active sink and eventually deleted from the
\* staging store.  A sink persists only what its snapshot of the store holds
\* and no key is written twice, so the record can still come to be persisted
\* only while it is staged or already in the sink's output: a record that has
\* left the staging store is in the sink's output.
C19_DrainedRecordsArePersisted ==
    \A k \in h_keys :
        k \notin DOMAIN store => \E s \in active : Copies(s, k) # {}

====
